---- MODULE Spec2Model ----
(***************************************************************************)
(* A model of the amortization calculator (AmortizationService and its     *)
(* helpers).                                                               *)
(*                                                                         *)
(* Numbers.  A JavaScript number is modelled as a record [k, v]:           *)
(*   k = "num"        a finite number written in plain decimal notation;   *)
(*                    v is its value in fixed point (see the units below), *)
(*                    rounded down to the grid,                            *)
(*   k = "tiny"       a finite number x with 0 < x < 1e-6, which           *)
(*                    Number.prototype.toString prints with an exponent,   *)
(*   k = "huge"       a finite number x >= 1e21, printed with an exponent  *)
(*                    as well,                                             *)
(*   k = "NaN", "Infinity", "-Infinity"   the non-finite numbers,          *)
(*   k = "undefined"  a missing field (typeof is not 'number').            *)
(* Units of v: amounts are in thousandths of a euro, interest and          *)
(* repayment rates in hundredths of a percent, years in hundredths of a    *)
(* year.  The arithmetic is exact on this grid (no binary rounding error). *)
(* Tiny and huge numbers are positive: they are loan amounts (1e-9 and     *)
(* 1.2e26 stand for them) or products of a positive amount and a rate, and *)
(* the program rounds every amount before it negates or subtracts it.      *)
(***************************************************************************)
EXTENDS Integers, Sequences, FiniteSets, TLC

VARIABLES
    loanData,              \* the argument of calculateAmortizationPlan
    today,                 \* the value of new Date() read by the call
    pc,                    \* position of the call
    thrown,                \* the error raised, "none" while none is
    errorMsg,              \* which message the InsufficientRateError carries
    monthlyInterestRate,   \* locals of calculateAmortizationPlan
    numberOfPayments,
    monthlyPayment,
    firstMonthInterest,
    amortizationEntries,
    currentDate,
    i,
    branches,              \* history: the branch that built each entry
    amortizationPlan,      \* the argument of calculateSummaryData
    summary,               \* the result of calculateSummaryData
    argument,              \* the argument of roundToTwoDecimals
    rounded,               \* roundToTwoDecimals(argument)
    roundedAgain,          \* roundToTwoDecimals(rounded)
    componentLoanData,     \* AppComponent.loanData
    componentPlan,         \* AppComponent.amortizationPlan
    summaryData,           \* AppComponent.summaryData
    calculationError,      \* AppComponent.calculationError
    submitted,             \* history: the loan data submitted so far
    loanForm,              \* LoanFormComponent.loanForm: the four control values
    touched,               \* whether the form's fields are marked as touched
    emitted                \* what loanDataSubmitted has emitted, if anything

vars == <<loanData, today, pc, thrown, errorMsg, monthlyInterestRate,
          numberOfPayments, monthlyPayment, firstMonthInterest,
          amortizationEntries, currentDate, i, branches, amortizationPlan,
          summary, argument, rounded, roundedAgain, componentLoanData,
          componentPlan, summaryData, calculationError, submitted,
          loanForm, touched, emitted>>

\* the variables of the call calculateSummaryData
summaryVars == <<amortizationPlan, summary>>

\* the variables of a call of roundToTwoDecimals on its own
roundVars == <<argument, rounded, roundedAgain>>

\* the fields of AppComponent, and the submissions it has received
componentVars == <<componentLoanData, componentPlan, summaryData,
                   calculationError, submitted>>

\* the state of LoanFormComponent
formVars == <<loanForm, touched, emitted>>

\* the variables of the call calculateAmortizationPlan
planVars == <<loanData, today, thrown, errorMsg, monthlyInterestRate,
              numberOfPayments, monthlyPayment, firstMonthInterest,
              amortizationEntries, currentDate, i, branches>>

-----------------------------------------------------------------------------
(* Program constants (AmortizationService), ZERO_THRESHOLD in thousandths. *)
MONTHS_IN_YEAR == 12
PERCENT_FACTOR == 100
ZERO_THRESHOLD == 5

(* Denominator of a monthly rate: rate units are 1/100 percent, so         *)
(* rate / PERCENT_FACTOR / MONTHS_IN_YEAR = v / RateDen.                   *)
RateDen == 100 * PERCENT_FACTOR * MONTHS_IN_YEAR

(* Bound of the model: the number of entries the array can take before the *)
(* engine runs out of memory.                                              *)
MaxPayments == 24

-----------------------------------------------------------------------------
(* JavaScript numbers *)
Fin(v) == [k |-> "num", v |-> v]
NaN == [k |-> "NaN", v |-> 0]
Infinity == [k |-> "Infinity", v |-> 0]
NegInfinity == [k |-> "-Infinity", v |-> 0]
Undefined == [k |-> "undefined", v |-> 0]
Tiny == [k |-> "tiny", v |-> 0]
Huge == [k |-> "huge", v |-> 0]
Zero == Fin(0)

TypeofNumber(x) == x.k # "undefined"
IsNaN(x) == x.k \in {"NaN", "undefined"}
IsFinite(x) == x.k \in {"num", "tiny", "huge"}

\* position of a finite number on the number line: a tiny number lies
\* strictly between 0 and the first grid point, a huge one beyond the grid
Key(x) ==
    CASE x.k = "tiny" -> 1
      [] x.k = "huge" -> 2000000000
      [] OTHER -> 2 * x.v

JsLt(a, b) ==
    /\ ~IsNaN(a)
    /\ ~IsNaN(b)
    /\ \/ a.k = "-Infinity" /\ b.k # "-Infinity"
       \/ b.k = "Infinity" /\ a.k # "Infinity"
       \/ IsFinite(a) /\ IsFinite(b) /\ Key(a) < Key(b)
JsGt(a, b) == JsLt(b, a)
JsLe(a, b) == ~IsNaN(a) /\ ~IsNaN(b) /\ ~JsLt(b, a)
JsGe(a, b) == JsLe(b, a)

\* -a, of a rounded amount or an infinity
JsNeg(a) ==
    CASE a.k = "Infinity" -> NegInfinity
      [] a.k = "-Infinity" -> Infinity
      [] a.k = "num" -> Fin(-a.v)
      [] OTHER -> NaN

JsAdd(a, b) ==
    CASE IsNaN(a) \/ IsNaN(b) -> NaN
      [] IsFinite(a) /\ IsFinite(b) ->
            IF a.k = "huge" \/ b.k = "huge" THEN Huge
            ELSE IF a.k = "tiny" /\ b.k = "tiny" THEN Tiny
            ELSE Fin((IF a.k = "tiny" THEN 0 ELSE a.v)
                     + (IF b.k = "tiny" THEN 0 ELSE b.v))
      [] IsFinite(a) -> b
      [] IsFinite(b) -> a
      [] a.k = b.k -> a
      [] OTHER -> NaN
JsSub(a, b) == JsAdd(a, JsNeg(b))

MathAbs(a) ==
    CASE IsNaN(a) -> NaN
      [] a.k \in {"Infinity", "-Infinity"} -> Infinity
      [] a.k \in {"tiny", "huge"} -> a
      [] OTHER -> Fin(IF a.v < 0 THEN -a.v ELSE a.v)

\* floor(a * b / d) for d > 0, without forming a * b
MulDiv(a, b, d) == (a \div d) * b + ((a % d) * b) \div d

\* amount * rate, the rate being a (monthly) rate in units of 1/RateDen;
\* the amount is never negative where the program multiplies.  The tiny
\* loan amount times a rate of the inputs stays below 1e-6, the huge one
\* times a rate of at least 1/RateDen stays at or above 1e21.
JsMulRate(amount, rate) ==
    CASE IsNaN(amount) \/ IsNaN(rate) -> NaN
      [] IsFinite(amount) /\ IsFinite(rate) ->
            IF amount = Zero \/ rate = Zero THEN Zero
            ELSE IF amount.k \in {"tiny", "huge"} THEN amount
            ELSE IF /\ amount.v < RateDen \div 1000
                    /\ rate.v < RateDen \div 1000
                    /\ amount.v * rate.v < RateDen \div 1000
                 THEN Tiny
                 ELSE Fin(MulDiv(amount.v, rate.v, RateDen))
      [] amount = Zero \/ rate = Zero -> NaN
      [] OTHER -> Infinity

-----------------------------------------------------------------------------
(* Utility functions *)

\* value + 'e+2' : the decimal string of value is in exponent notation
\* exactly when 0 < |value| < 1e-6 or |value| >= 1e21, and then the
\* concatenation is no numeric literal
ToStringHasExponent(value) == value.k \in {"tiny", "huge"}

\* Number(value + 'e+2'), in thousandths
NumberShifted(value) == IF ToStringHasExponent(value) THEN NaN ELSE Fin(value.v)

\* a variant: Math.floor of a number given in tenths
MathFloor(x) == IF IsNaN(x) THEN NaN ELSE Fin(x.v \div 10)

\* Math.round of a number given in tenths: halves go up (towards +Infinity)
MathRound(x) == IF IsNaN(x) THEN NaN ELSE Fin((x.v + 5) \div 10)

\* Number(n + 'e-2'), n an integer number of cents or NaN
NumberUnshifted(n) == IF IsNaN(n) THEN NaN ELSE Fin(10 * n.v)

roundToTwoDecimals(value) ==
    IF IsNaN(value) \/ ~IsFinite(value)
    THEN Zero
    ELSE NumberUnshifted(MathRound(NumberShifted(value)))

IsLeapYear(y) == (y % 4 = 0 /\ y % 100 # 0) \/ y % 400 = 0

DaysInMonth(y, m) ==
    CASE m = 1 -> IF IsLeapYear(y) THEN 29 ELSE 28
      [] m \in {3, 5, 8, 10} -> 30
      [] OTHER -> 31

\* new Date(year, monthIndex, 0): the month index is normalised into the
\* year, and day 0 is the last day of the month before
NewDateDayZero(year, monthIndex) ==
    LET y == year + (monthIndex \div 12)
        m == monthIndex % 12
    IN  IF m = 0
        THEN [y |-> y - 1, m |-> 11, d |-> DaysInMonth(y - 1, 11)]
        ELSE [y |-> y, m |-> m - 1, d |-> DaysInMonth(y, m - 1)]

getMonthEndDate(date) == NewDateDayZero(date.y, date.m + 1)
\* a variant that adds one month to the index instead of two
getNextMonthEndDateOneAhead(date) == NewDateDayZero(date.y, date.m + 1)

getNextMonthEndDate(date) == NewDateDayZero(date.y, date.m + 2)

-----------------------------------------------------------------------------
(* AmortizationService *)

\* a variant that asks for a positive interest rate
isValidLoanDataStrictRate(ld) ==
    /\ ld.tag = "object"
    /\ TypeofNumber(ld.loanAmount) /\ JsGt(ld.loanAmount, Zero)
    /\ TypeofNumber(ld.interestRate) /\ JsGt(ld.interestRate, Zero)
    /\ TypeofNumber(ld.initialRepayment) /\ JsGt(ld.initialRepayment, Zero)
    /\ TypeofNumber(ld.interestFixation) /\ JsGt(ld.interestFixation, Zero)

isValidLoanData(ld) ==
    /\ ld.tag = "object"
    /\ TypeofNumber(ld.loanAmount) /\ JsGt(ld.loanAmount, Zero)
    /\ TypeofNumber(ld.interestRate) /\ JsGe(ld.interestRate, Zero)
    /\ TypeofNumber(ld.initialRepayment) /\ JsGt(ld.initialRepayment, Zero)
    /\ TypeofNumber(ld.interestFixation) /\ JsGt(ld.interestFixation, Zero)

\* interestRate / PERCENT_FACTOR / MONTHS_IN_YEAR: the same numerator, now
\* over RateDen
MonthlyRateOf(interestRate) ==
    CASE IsNaN(interestRate) -> NaN
      [] OTHER -> interestRate

\* interestFixation * MONTHS_IN_YEAR, in hundredths of a month
TimesMonths(interestFixation) ==
    CASE IsNaN(interestFixation) -> NaN
      [] interestFixation.k = "num" -> Fin(interestFixation.v * MONTHS_IN_YEAR)
      [] OTHER -> interestFixation

\* a variant of the guard that runs one month too many
LoopGuardInclusive(n, nop) == JsLe(Fin(100 * n), nop)
\* i < numberOfPayments, i an integer
LoopGuard(n, nop) == JsLt(Fin(100 * n), nop)

\* a variant that does not divide by MONTHS_IN_YEAR: the payment of a year
calculateMonthlyPaymentOfYear(loanAmount, interestRate, initialRepayment) ==
    LET monthly == roundToTwoDecimals(
                       JsMulRate(loanAmount, JsAdd(interestRate, initialRepayment)))
    IN  IF monthly.k = "num" THEN Fin(MONTHS_IN_YEAR * monthly.v) ELSE monthly

calculateMonthlyPayment(loanAmount, interestRate, initialRepayment) ==
    roundToTwoDecimals(JsMulRate(loanAmount, JsAdd(interestRate, initialRepayment)))

createDisbursementEntry(loanAmount, date) ==
    LET roundedAmount == roundToTwoDecimals(loanAmount)
    IN  [date |-> date,
         remainingDebt |-> JsNeg(roundedAmount),
         interest |-> Zero,
         repayment |-> JsNeg(roundedAmount),
         payment |-> JsNeg(roundedAmount)]

createZeroEntry(date) ==
    [date |-> date, remainingDebt |-> Zero, interest |-> Zero,
     repayment |-> Zero, payment |-> Zero]

Threshold == Fin(ZERO_THRESHOLD)

\* the interest charged in _calculateNextPaymentEntry
NextInterest(previousBalance, rate) ==
    IF JsLt(MathAbs(previousBalance), Threshold)
    THEN Zero
    ELSE roundToTwoDecimals(JsMulRate(JsNeg(previousBalance), rate))

\* a variant without the final-payment adjustment
ClearsDebtNever(previousBalance, principalPayment) == FALSE
\* the final payment adjustment applies
ClearsDebt(previousBalance, principalPayment) ==
    /\ JsGt(JsNeg(previousBalance), Zero)
    /\ JsGe(principalPayment, JsSub(JsNeg(previousBalance), Threshold))

\* which branch _calculateNextPaymentEntry takes
NextPaymentBranch(previousBalance, mp, rate) ==
    LET interest == NextInterest(previousBalance, rate)
        pp0 == roundToTwoDecimals(JsSub(mp, interest))
        final == ClearsDebt(previousBalance, pp0)
        pp1 == IF final THEN JsNeg(previousBalance) ELSE pp0
    IN  CASE JsGt(previousBalance, Zero) -> "invalid"
          [] JsLt(pp1, Zero) -> "defensive"
          [] final -> "final"
          [] OTHER -> "regular"

calculateNextPaymentEntry(previousBalance, mp, rate, date) ==
    IF JsGt(previousBalance, Zero)
    THEN createZeroEntry(date)
    ELSE
    LET interest == NextInterest(previousBalance, rate)
        pp0 == roundToTwoDecimals(JsSub(mp, interest))
        final == ClearsDebt(previousBalance, pp0)
        pp1 == IF final THEN JsNeg(previousBalance) ELSE pp0
        ap1 == IF final THEN roundToTwoDecimals(JsAdd(interest, pp1)) ELSE mp
        negative == JsLt(pp1, Zero)
        principalPayment == IF negative THEN Zero ELSE pp1
        actualPayment == IF negative
                         THEN roundToTwoDecimals(JsAdd(interest, principalPayment))
                         ELSE ap1
        nb == roundToTwoDecimals(JsAdd(previousBalance, principalPayment))
        newBalance == IF JsLt(MathAbs(nb), Threshold) THEN Zero ELSE nb
    IN  [date |-> date,
         remainingDebt |-> newBalance,
         interest |-> roundToTwoDecimals(interest),
         repayment |-> roundToTwoDecimals(principalPayment),
         payment |-> roundToTwoDecimals(actualPayment)]

\* the month loop's test for a loan that is already paid off
IsPaidOff(previousBalance) == JsLt(MathAbs(previousBalance), Threshold)

\* the viability check of calculateAmortizationPlan
IsInsufficient(mp, fmi) == JsLe(mp, JsAdd(fmi, Threshold))

\* a variant without the second test: the message is never replaced
IsExactlyCoveringNever(mp, fmi) == FALSE

IsExactlyCovering(mp, fmi) == JsLt(MathAbs(JsSub(mp, fmi)), Threshold)

\* x.toFixed(2): the decimal string with two decimals, given by its number
\* of cents (the nearest one, a half cent going away from zero); NaN and the
\* infinities are printed by name
ToFixed(x) ==
    IF x.k = "num"
    THEN [k |-> "decimal",
          cents |-> IF x.v < 0 THEN -((5 - x.v) \div 10) ELSE (x.v + 5) \div 10]
    ELSE [k |-> x.k, cents |-> 0]

\* no error has been built
NoMessage == [variant |-> "none", monthlyPayment |-> ToFixed(Undefined),
              firstMonthInterest |-> ToFixed(Undefined)]

\* errorMsg of the InsufficientRateError: one of two texts, each with
\* monthlyPayment.toFixed(2) and firstMonthInterest.toFixed(2) in it
InsufficientRateMessage(mp, fmi) ==
    [variant |-> IF IsExactlyCovering(mp, fmi)
                 THEN "exactly covers" ELSE "insufficient",
     monthlyPayment |-> ToFixed(mp),
     firstMonthInterest |-> ToFixed(fmi)]

\* paymentEntries.reduce((sum, entry) => sum + entry[field], 0) over the
\* entries from index from on
RECURSIVE ReduceSum(_, _, _)
ReduceSum(entries, field, from) ==
    IF from > Len(entries) THEN Zero
    ELSE JsAdd(ReduceSum(SubSeq(entries, 1, Len(entries) - 1), field, from),
               entries[Len(entries)][field])

ZeroSummary ==
    [remainingDebt |-> Zero, totalInterestPaid |-> Zero, totalRepaymentPaid |-> Zero]

\* the argument is an array, null or undefined
ArrayOf(entries) == [tag |-> "array", entries |-> entries]
NullPlan == [tag |-> "null", entries |-> <<>>]
UndefinedPlan == [tag |-> "undefined", entries |-> <<>>]

\* a variant that sums the disbursement entry as well
calculateSummaryDataFromFirst(plan) ==
    IF plan.tag # "array" \/ Len(plan.entries) = 0
    THEN ZeroSummary
    ELSE LET lastEntry == plan.entries[Len(plan.entries)]
         IN  [remainingDebt |-> roundToTwoDecimals(lastEntry.remainingDebt),
              totalInterestPaid |->
                  roundToTwoDecimals(ReduceSum(plan.entries, "interest", 1)),
              totalRepaymentPaid |->
                  roundToTwoDecimals(ReduceSum(plan.entries, "repayment", 1))]

\* a variant without the guard: reading a property of null or undefined
\* raises a TypeError, and no summary is returned
calculateSummaryDataNoGuard(plan) ==
    IF plan.tag # "array"
    THEN [remainingDebt |-> Undefined, totalInterestPaid |-> Undefined,
          totalRepaymentPaid |-> Undefined]
    ELSE IF Len(plan.entries) = 0 THEN ZeroSummary
    ELSE LET lastEntry == plan.entries[Len(plan.entries)]
         IN  [remainingDebt |-> roundToTwoDecimals(lastEntry.remainingDebt),
              totalInterestPaid |->
                  roundToTwoDecimals(ReduceSum(plan.entries, "interest", 2)),
              totalRepaymentPaid |->
                  roundToTwoDecimals(ReduceSum(plan.entries, "repayment", 2))]

calculateSummaryData(plan) ==
    IF plan.tag # "array" \/ Len(plan.entries) = 0
    THEN ZeroSummary
    ELSE LET totalInterestPaid == ReduceSum(plan.entries, "interest", 2)
             totalRepaymentPaid == ReduceSum(plan.entries, "repayment", 2)
             lastEntry == plan.entries[Len(plan.entries)]
         IN  [remainingDebt |-> roundToTwoDecimals(lastEntry.remainingDebt),
              totalInterestPaid |-> roundToTwoDecimals(totalInterestPaid),
              totalRepaymentPaid |-> roundToTwoDecimals(totalRepaymentPaid)]

-----------------------------------------------------------------------------
(* Inputs *)

NoDate == [y |-> 0, m |-> 0, d |-> 0]

Object(la, ir, rp, fx) ==
    [tag |-> "object", loanAmount |-> la, interestRate |-> ir,
     initialRepayment |-> rp, interestFixation |-> fx]
Null == [tag |-> "null", loanAmount |-> Undefined, interestRate |-> Undefined,
         initialRepayment |-> Undefined, interestFixation |-> Undefined]
UndefinedData == [Null EXCEPT !.tag = "undefined"]

NotNumbers == {NaN, Infinity, NegInfinity, Undefined}

\* thousandths of a euro: 0.004, 0.005, 0.05, 1, 10, 1000.005, 100000; and
\* the amounts 1e-9 and 1.2e26
LoanAmounts ==
    {Fin(x) : x \in {4, 5, 50, 1000, 10000, 1000005, 10000000,
                    100000000}} \cup {Tiny, Huge}
\* hundredths of a percent: 0, 0.01, 3, 5, 12, 120000
InterestRates == {Fin(x) : x \in {0, 1, 300, 500, 1200, 12000000}}
\* hundredths of a percent: 0.01, 2, 10, 100, 1200, 120000
InitialRepayments == {Fin(x) : x \in {1, 200, 1000, 10000, 120000, 12000000}}
\* hundredths of a year: 0.1, 0.5, 1, 2
Fixations == {Fin(x) : x \in {10, 50, 100, 200}}

\* the very high rates are combined with the very small loans only, which
\* keeps every product of the call below 2^31
InRange(ld) ==
    \/ ld.loanAmount.v <= 50
    \/ ld.interestRate.v + ld.initialRepayment.v <= 21200

ValidInputs ==
    {ld \in {Object(la, ir, rp, fx) : la \in LoanAmounts, ir \in InterestRates,
                                      rp \in InitialRepayments, fx \in Fixations} :
        InRange(ld)}

\* one field of a usual input replaced by a value the validator must judge
BaseInput == Object(Fin(100000000), Fin(500), Fin(200), Fin(100))
OddInputs ==
    {[BaseInput EXCEPT !.loanAmount = x] :
        x \in NotNumbers \cup {Fin(0), Fin(-1000)}}
    \cup {[BaseInput EXCEPT !.interestRate = x] :
        x \in NotNumbers \cup {Fin(-500)}}
    \cup {[BaseInput EXCEPT !.initialRepayment = x] :
        x \in NotNumbers \cup {Fin(0), Fin(-200)}}
    \cup {[BaseInput EXCEPT !.interestFixation = x] :
        x \in NotNumbers \cup {Fin(0), Fin(-100)}}
    \cup {Object(NaN, Infinity, Fin(200), Fin(100)),
          Object(Infinity, Fin(0), Fin(200), Fin(100)),
          Object(Fin(0), Fin(-500), Fin(0), Fin(0)),
          Object(Fin(1000), Fin(500), Fin(10000), Infinity)}

Inputs == ValidInputs \cup OddInputs \cup {Null, UndefinedData}

\* before the call of calculateSummaryData
NoPlan == [tag |-> "none", entries |-> <<>>]
NoSummary ==
    [remainingDebt |-> Undefined, totalInterestPaid |-> Undefined,
     totalRepaymentPaid |-> Undefined]

\* new Date(): a day in December 2027, in January 2028 (a leap year) or in
\* December 2099 (2100 is no leap year)
Todays == {[y |-> 2027, m |-> 11, d |-> 15], [y |-> 2028, m |-> 0, d |-> 31],
           [y |-> 2099, m |-> 11, d |-> 31]}

\* 10000 at 0 % with 10 % repayment for one year
ZeroRateLoan == Object(Fin(10000000), Zero, Fin(1000), Fin(100))

\* the value null of calculationError
NoError == "null"

\* AppComponent after construction: its four fields are null
ComponentInit ==
    /\ componentLoanData = Null
    /\ componentPlan = NullPlan
    /\ summaryData = NoSummary
    /\ calculationError = NoError
    /\ submitted = <<>>

\* a control's value: a number (in thousandths), a string or null
NumberValue(n) == [t |-> "number", n |-> n, s |-> ""]
StringValue(s) == [t |-> "string", n |-> Undefined, s |-> s]
NullValue == [t |-> "null", n |-> Undefined, s |-> ""]

\* nothing has been emitted
NotEmitted == [Null EXCEPT !.tag = "none"]

\* LoanFormComponent after construction: every control holds ''
FormInit ==
    /\ loanForm = [loanAmount |-> StringValue(""), interestRate |-> StringValue(""),
                   initialRepayment |-> StringValue(""),
                   interestFixation |-> StringValue("")]
    /\ touched = FALSE
    /\ emitted = NotEmitted

-----------------------------------------------------------------------------
(* The call calculateAmortizationPlan(loanData), step by step *)

Init ==
    /\ loanData \in Inputs
    /\ today \in Todays
    /\ pc = "start"
    /\ thrown = "none"
    /\ errorMsg = NoMessage
    /\ monthlyInterestRate = Undefined
    /\ numberOfPayments = Undefined
    /\ monthlyPayment = Undefined
    /\ firstMonthInterest = Undefined
    /\ amortizationEntries = <<>>
    /\ currentDate = NoDate
    /\ i = 0
    /\ branches = <<>>
    /\ amortizationPlan = NoPlan
    /\ summary = NoSummary
    /\ argument = Undefined
    /\ rounded = Undefined
    /\ roundedAgain = Undefined
    /\ ComponentInit
    /\ FormInit

\* a variant that goes on with whatever it is given
ValidateNoThrow ==
    /\ pc = "start"
    /\ pc' = "valid"
    /\ UNCHANGED <<loanData, today, thrown, errorMsg, monthlyInterestRate,
                   numberOfPayments, monthlyPayment, firstMonthInterest,
                   amortizationEntries, currentDate, i, branches>>
    /\ UNCHANGED <<summaryVars, roundVars, componentVars, formVars>>

\* if (!this.isValidLoanData(loanData)) throw new InvalidLoanDataError(...)
Validate ==
    /\ pc = "start"
    /\ IF isValidLoanData(loanData)
       THEN pc' = "valid" /\ thrown' = thrown
       ELSE pc' = "done" /\ thrown' = "InvalidLoanDataError"
    /\ UNCHANGED <<loanData, today, errorMsg, monthlyInterestRate, numberOfPayments,
                   monthlyPayment, firstMonthInterest, amortizationEntries,
                   currentDate, i, branches>>
    /\ UNCHANGED <<summaryVars, roundVars, componentVars, formVars>>

\* the locals and the viability check
CheckRate ==
    /\ pc = "valid"
    /\ LET rate == MonthlyRateOf(loanData.interestRate)
           mp == calculateMonthlyPayment(loanData.loanAmount, loanData.interestRate,
                                         loanData.initialRepayment)
           fmi == roundToTwoDecimals(JsMulRate(loanData.loanAmount, rate))
       IN  /\ monthlyInterestRate' = rate
           /\ numberOfPayments' = TimesMonths(loanData.interestFixation)
           /\ monthlyPayment' = mp
           /\ firstMonthInterest' = fmi
           /\ IF IsInsufficient(mp, fmi)
              THEN /\ pc' = "done"
                   /\ thrown' = "InsufficientRateError"
                   /\ errorMsg' = InsufficientRateMessage(mp, fmi)
              ELSE /\ pc' = "viable"
                   /\ UNCHANGED <<thrown, errorMsg>>
    /\ UNCHANGED <<loanData, today, amortizationEntries, currentDate, i, branches>>
    /\ UNCHANGED <<summaryVars, roundVars, componentVars, formVars>>

\* the disbursement entry, dated at the end of the current month
Disburse ==
    /\ pc = "viable"
    /\ LET date == getMonthEndDate(today)
       IN  /\ amortizationEntries' = <<createDisbursementEntry(loanData.loanAmount, date)>>
           /\ currentDate' = getNextMonthEndDate(date)
    /\ branches' = <<"disbursement">>
    /\ i' = 0
    /\ pc' = "loop"
    /\ UNCHANGED <<loanData, today, thrown, errorMsg, monthlyInterestRate,
                   numberOfPayments, monthlyPayment, firstMonthInterest>>
    /\ UNCHANGED <<summaryVars, roundVars, componentVars, formVars>>

\* one iteration of the month loop
LoopIteration ==
    /\ pc = "loop"
    /\ LoopGuard(i, numberOfPayments)
    /\ i < MaxPayments
    /\ LET previousBalance == amortizationEntries[Len(amortizationEntries)].remainingDebt
       IN  IF IsPaidOff(previousBalance)
           THEN /\ amortizationEntries' =
                       Append(amortizationEntries, createZeroEntry(currentDate))
                /\ branches' = Append(branches, "zero")
           ELSE /\ amortizationEntries' =
                       Append(amortizationEntries,
                              calculateNextPaymentEntry(previousBalance, monthlyPayment,
                                                        monthlyInterestRate, currentDate))
                /\ branches' =
                       Append(branches,
                              NextPaymentBranch(previousBalance, monthlyPayment,
                                                monthlyInterestRate))
    /\ currentDate' = getNextMonthEndDate(currentDate)
    /\ i' = i + 1
    /\ UNCHANGED <<loanData, today, pc, thrown, errorMsg, monthlyInterestRate,
                   numberOfPayments, monthlyPayment, firstMonthInterest>>
    /\ UNCHANGED <<summaryVars, roundVars, componentVars, formVars>>

\* the loop guard still holds but the array cannot grow any more: the call
\* ends without a result
LoopExhaust ==
    /\ pc = "loop"
    /\ LoopGuard(i, numberOfPayments)
    /\ i >= MaxPayments
    /\ pc' = "done"
    /\ thrown' = "OutOfMemory"
    /\ UNCHANGED <<loanData, today, errorMsg, monthlyInterestRate, numberOfPayments,
                   monthlyPayment, firstMonthInterest, amortizationEntries,
                   currentDate, i, branches>>
    /\ UNCHANGED <<summaryVars, roundVars, componentVars, formVars>>

\* return amortizationEntries
Return ==
    /\ pc = "loop"
    /\ ~LoopGuard(i, numberOfPayments)
    /\ pc' = "done"
    /\ UNCHANGED <<loanData, today, thrown, errorMsg, monthlyInterestRate,
                   numberOfPayments, monthlyPayment, firstMonthInterest,
                   amortizationEntries, currentDate, i, branches>>
    /\ UNCHANGED <<summaryVars, roundVars, componentVars, formVars>>

\* the schedules a caller passes to calculateSummaryData once the plan's
\* call is over: nothing, an empty array, the returned schedule, or an array
\* that holds its disbursement entry only
SummaryArguments ==
    {NullPlan, UndefinedPlan, ArrayOf(<<>>)}
    \cup (IF pc = "done" /\ thrown = "none"
          THEN {ArrayOf(amortizationEntries), ArrayOf(SubSeq(amortizationEntries, 1, 1))}
          ELSE {})

\* a variant that drops the disbursement entry with shift() instead of
\* slice(1): the array passed in loses its first entry
SummarizeShifting ==
    /\ pc = "done"
    /\ \E plan \in SummaryArguments :
           LET shifts == plan.tag = "array" /\ Len(plan.entries) > 0
           IN  /\ amortizationPlan' =
                      IF shifts THEN ArrayOf(Tail(plan.entries)) ELSE plan
               /\ amortizationEntries' =
                      IF shifts /\ plan.entries = amortizationEntries
                      THEN Tail(amortizationEntries) ELSE amortizationEntries
               /\ summary' = calculateSummaryData(plan)
    /\ pc' = "summarized"
    /\ UNCHANGED <<loanData, today, thrown, errorMsg, monthlyInterestRate,
                   numberOfPayments, monthlyPayment, firstMonthInterest,
                   currentDate, i, branches, roundVars, componentVars,
                   formVars>>

\* a call calculateSummaryData(amortizationPlan)
Summarize ==
    /\ pc = "done"
    /\ \E plan \in SummaryArguments :
           /\ amortizationPlan' = plan
           /\ summary' = calculateSummaryData(plan)
    /\ pc' = "summarized"
    /\ UNCHANGED <<planVars, roundVars, componentVars, formVars>>

Next ==
    \/ Validate
    \/ CheckRate
    \/ Disburse
    \/ LoopIteration
    \/ LoopExhaust
    \/ Return
    \/ Summarize

Spec == Init /\ [][Next]_vars

-----------------------------------------------------------------------------
(* AppComponent: the handler onLoanDataSubmitted, called again and again *)

MaxSubmissions == 2

\* what the form or any other caller hands to the handler: two loans that
\* get a schedule, two that do not cover the interest, two that are no loan
\* data, and one whose period has no end
SubmittedInputs ==
    {Object(Fin(100000000), Fin(500), Fin(200), Fin(100)),
     ZeroRateLoan,
     Object(Fin(1000), Fin(500), Fin(1), Fin(100)),
     Object(Fin(100000000), Fin(500), Infinity, Fin(100)),
     Object(NaN, Fin(500), Fin(200), Fin(100)),
     Null,
     Object(Fin(1000), Fin(500), Fin(10000), Infinity)}

ComponentSpecInit ==
    /\ loanData = Null
    /\ today = [y |-> 2027, m |-> 11, d |-> 15]
    /\ pc = "idle"
    /\ thrown = "none"
    /\ errorMsg = NoMessage
    /\ monthlyInterestRate = Undefined
    /\ numberOfPayments = Undefined
    /\ monthlyPayment = Undefined
    /\ firstMonthInterest = Undefined
    /\ amortizationEntries = <<>>
    /\ currentDate = NoDate
    /\ i = 0
    /\ branches = <<>>
    /\ amortizationPlan = NoPlan
    /\ summary = NoSummary
    /\ argument = Undefined
    /\ rounded = Undefined
    /\ roundedAgain = Undefined
    /\ ComponentInit
    /\ FormInit

\* the call of the service starts with fresh locals
CallService(ld) ==
    /\ loanData' = ld
    /\ thrown' = "none"
    /\ errorMsg' = NoMessage
    /\ monthlyInterestRate' = Undefined
    /\ numberOfPayments' = Undefined
    /\ monthlyPayment' = Undefined
    /\ firstMonthInterest' = Undefined
    /\ amortizationEntries' = <<>>
    /\ currentDate' = NoDate
    /\ i' = 0
    /\ branches' = <<>>

\* a variant of the handler's start that resets nothing (as the first
\* version of the component did)
SubmitKeepingResults ==
    /\ pc = "idle"
    /\ Len(submitted) < MaxSubmissions
    /\ \E ld \in SubmittedInputs :
           /\ submitted' = Append(submitted, ld)
           /\ componentLoanData' = ld
           /\ IF isValidLoanData(ld)
              THEN /\ CallService(ld)
                   /\ pc' = "start"
                   /\ UNCHANGED calculationError
              ELSE /\ calculationError' = "invalid"
                   /\ UNCHANGED <<planVars, pc>>
    /\ UNCHANGED <<today, componentPlan, summaryData, summaryVars, roundVars,
                   formVars>>

\* onLoanDataSubmitted(loanData) up to the call of the service: the fields
\* are reset, the data are stored, and data that are not valid end the
\* handler with the error text for invalid input
Submit ==
    /\ pc = "idle"
    /\ Len(submitted) < MaxSubmissions
    /\ \E ld \in SubmittedInputs :
           /\ submitted' = Append(submitted, ld)
           /\ componentPlan' = NullPlan
           /\ summaryData' = NoSummary
           /\ componentLoanData' = ld
           /\ IF isValidLoanData(ld)
              THEN /\ calculationError' = NoError
                   /\ CallService(ld)
                   /\ pc' = "start"
              ELSE /\ calculationError' = "invalid"
                   /\ UNCHANGED <<planVars, pc>>
    /\ UNCHANGED <<today, summaryVars, roundVars, formVars>>

\* error.message of what the call of the service has thrown
MessageOfError ==
    CASE thrown = "InvalidLoanDataError" -> "invalid loan data"
      [] thrown = "InsufficientRateError" -> errorMsg.variant
      [] OTHER -> "array cannot grow"

\* the rest of the handler, once the service has returned or thrown: the
\* plan and its summary are stored, or the catch block stores the message
\* and sets both to null
Finish ==
    /\ pc = "done"
    /\ IF thrown = "none"
       THEN /\ componentPlan' = ArrayOf(amortizationEntries)
            /\ summaryData' = calculateSummaryData(ArrayOf(amortizationEntries))
            /\ UNCHANGED calculationError
       ELSE /\ calculationError' = MessageOfError
            /\ componentPlan' = NullPlan
            /\ summaryData' = NoSummary
    /\ pc' = "idle"
    /\ UNCHANGED <<planVars, summaryVars, roundVars, formVars, componentLoanData,
                   submitted>>

\* the array cannot grow any more and the page runs out of memory before
\* any error can be caught: the handler never comes back
Abort ==
    /\ pc = "done"
    /\ thrown = "OutOfMemory"
    /\ pc' = "crashed"
    /\ UNCHANGED <<planVars, summaryVars, roundVars, componentVars, formVars>>

ComponentNext ==
    \/ Submit
    \/ Validate
    \/ CheckRate
    \/ Disburse
    \/ LoopIteration
    \/ LoopExhaust
    \/ Return
    \/ Finish
    \/ Abort

SpecComponent == ComponentSpecInit /\ [][ComponentNext]_vars

-----------------------------------------------------------------------------
(* LoanFormComponent: the form, its validators and onSubmit *)

\* VALIDATION_PARAMS, in thousandths
MIN_LOAN_AMOUNT == 1000
MIN_INTEREST_RATE == 0
MAX_PERCENTAGE == 100000
MIN_FIXATION_YEARS == 1000
MAX_FIXATION_YEARS == 100000

\* parseFloat(s) and Number(s) of the strings of the model: '10' and '10.5'
\* are numerals, '', ' ' and 'abc' are not; Number('') and Number(' ') are 0
ParseFloatOfString(s) ==
    CASE s = "10" -> Fin(10000)
      [] s = "10.5" -> Fin(10500)
      [] OTHER -> NaN
NumberOfString(s) ==
    CASE s = "10" -> Fin(10000)
      [] s = "10.5" -> Fin(10500)
      [] s \in {"", " "} -> Zero
      [] OTHER -> NaN

\* parseFloat(value) and Number(value) of a control's value
ParseFloat(value) ==
    CASE value.t = "number" -> value.n
      [] value.t = "string" -> ParseFloatOfString(value.s)
      [] OTHER -> NaN
ToNumber(value) ==
    CASE value.t = "number" -> value.n
      [] value.t = "string" -> NumberOfString(value.s)
      [] OTHER -> Zero

\* the validators' test for an empty input: null or a string of length 0
IsEmptyInputValue(value) ==
    value.t = "null" \/ (value.t = "string" /\ value.s = "")

\* Validators.required, min, max and pattern: TRUE where the validator
\* reports no error; min and max pass a value that parseFloat turns into NaN
RequiredPasses(value) == ~IsEmptyInputValue(value)
MinPasses(value, min) ==
    IsEmptyInputValue(value) \/ ~JsLt(ParseFloat(value), Fin(min))
MaxPasses(value, max) ==
    IsEmptyInputValue(value) \/ ~JsGt(ParseFloat(value), Fin(max))

\* INTEGER_PATTERN /^[0-9]+$/ tested on the value's string: the digits of a
\* whole number that is not negative
MatchesIntegerPattern(value) ==
    CASE value.t = "number" ->
             value.n.k = "num" /\ value.n.v >= 0 /\ value.n.v % 1000 = 0
      [] value.t = "string" -> value.s = "10"
      [] OTHER -> FALSE
PatternPasses(value) == IsEmptyInputValue(value) \/ MatchesIntegerPattern(value)

\* greaterThanZeroValidator
greaterThanZeroValidator(value) ==
    IF value.t = "null" \/ (value.t = "string" /\ value.s = "")
    THEN TRUE
    ELSE ~(IsNaN(ToNumber(value)) \/ JsLe(ToNumber(value), Zero))

\* loanForm.valid: every validator of every control passes
FormIsValid(form) ==
    /\ RequiredPasses(form.loanAmount)
    /\ MinPasses(form.loanAmount, MIN_LOAN_AMOUNT)
    /\ RequiredPasses(form.interestRate)
    /\ MinPasses(form.interestRate, MIN_INTEREST_RATE)
    /\ MaxPasses(form.interestRate, MAX_PERCENTAGE)
    /\ RequiredPasses(form.initialRepayment)
    /\ greaterThanZeroValidator(form.initialRepayment)
    /\ MaxPasses(form.initialRepayment, MAX_PERCENTAGE)
    /\ RequiredPasses(form.interestFixation)
    /\ MinPasses(form.interestFixation, MIN_FIXATION_YEARS)
    /\ MaxPasses(form.interestFixation, MAX_FIXATION_YEARS)
    /\ PatternPasses(form.interestFixation)

\* a number of the form in the unit of the rates and years of LoanData:
\* hundredths instead of thousandths
InHundredths(x) == IF x.k = "num" THEN Fin(x.v \div 10) ELSE x

\* the LoanData that onSubmit builds with Number(...) of every control
LoanDataOfForm(form) ==
    Object(ToNumber(form.loanAmount),
           InHundredths(ToNumber(form.interestRate)),
           InHundredths(ToNumber(form.initialRepayment)),
           InHundredths(ToNumber(form.interestFixation)))

\* what the controls may hold: numbers, strings and null
LoanAmountValues ==
    {NumberValue(Fin(x)) : x \in {0, 500, 1000, 100000000}}
    \cup {NumberValue(NaN), NumberValue(Infinity), StringValue(""),
          StringValue("abc"), NullValue}
InterestRateValues ==
    {NumberValue(Fin(x)) : x \in {-1000, 0, 5000, 100000, 101000}}
    \cup {StringValue(""), StringValue("abc"), StringValue(" ")}
InitialRepaymentValues ==
    {NumberValue(Fin(x)) : x \in {0, 2000, 100000, 101000}}
    \cup {NumberValue(NaN), StringValue(""), StringValue("abc")}
InterestFixationValues ==
    {NumberValue(Fin(x)) : x \in {0, 1000, 10000, 10500, 100000, 101000}}
    \cup {StringValue(""), StringValue("10"), StringValue("10.5")}

FormSpecInit ==
    /\ loanData = Null
    /\ today = [y |-> 2027, m |-> 11, d |-> 15]
    /\ pc = "form"
    /\ thrown = "none"
    /\ errorMsg = NoMessage
    /\ monthlyInterestRate = Undefined
    /\ numberOfPayments = Undefined
    /\ monthlyPayment = Undefined
    /\ firstMonthInterest = Undefined
    /\ amortizationEntries = <<>>
    /\ currentDate = NoDate
    /\ i = 0
    /\ branches = <<>>
    /\ amortizationPlan = NoPlan
    /\ summary = NoSummary
    /\ argument = Undefined
    /\ rounded = Undefined
    /\ roundedAgain = Undefined
    /\ ComponentInit
    /\ loanForm \in [loanAmount : LoanAmountValues,
                     interestRate : InterestRateValues,
                     initialRepayment : InitialRepaymentValues,
                     interestFixation : InterestFixationValues]
    /\ touched = FALSE
    /\ emitted = NotEmitted

\* onSubmit()
OnSubmit ==
    /\ pc = "form"
    /\ IF FormIsValid(loanForm)
       THEN emitted' = LoanDataOfForm(loanForm) /\ UNCHANGED touched
       ELSE touched' = TRUE /\ UNCHANGED emitted
    /\ pc' = "submitted"
    /\ UNCHANGED <<planVars, summaryVars, roundVars, componentVars, loanForm>>

FormNext == OnSubmit

SpecForm == FormSpecInit /\ [][FormNext]_vars

-----------------------------------------------------------------------------
(* roundToTwoDecimals on its own: round an amount, then round the result *)

MaxThousandths == 300

\* thousandths of a euro: every amount up to 0.3, and 1.005, 123.454, 123.455,
\* 123.456 and 100
RoundArguments ==
    {Fin(x) : x \in 0..MaxThousandths}
    \cup {Fin(x) : x \in {1005, 123454, 123455, 123456, 100000}}

RoundInit ==
    /\ loanData = BaseInput
    /\ today \in Todays
    /\ pc = "start"
    /\ thrown = "none"
    /\ errorMsg = NoMessage
    /\ monthlyInterestRate = Undefined
    /\ numberOfPayments = Undefined
    /\ monthlyPayment = Undefined
    /\ firstMonthInterest = Undefined
    /\ amortizationEntries = <<>>
    /\ currentDate = NoDate
    /\ i = 0
    /\ branches = <<>>
    /\ amortizationPlan = NoPlan
    /\ summary = NoSummary
    /\ argument \in RoundArguments
    /\ rounded = Undefined
    /\ roundedAgain = Undefined
    /\ ComponentInit
    /\ FormInit

Round ==
    /\ pc = "start"
    /\ rounded' = roundToTwoDecimals(argument)
    /\ pc' = "rounded"
    /\ UNCHANGED <<planVars, summaryVars, componentVars, formVars, argument,
                   roundedAgain>>

RoundAgain ==
    /\ pc = "rounded"
    /\ roundedAgain' = roundToTwoDecimals(rounded)
    /\ pc' = "roundedAgain"
    /\ UNCHANGED <<planVars, summaryVars, componentVars, formVars, argument,
                   rounded>>

RoundNext == Round \/ RoundAgain

SpecRound == RoundInit /\ [][RoundNext]_vars

\* the call of calculateAmortizationPlan is over
PlanDone == pc \in {"done", "summarized"}

\* the call has returned its schedule
Returned == PlanDone /\ thrown = "none"

-----------------------------------------------------------------------------
(* Properties of the schedule.  Entry i of the schedule is
   amortizationEntries[i + 1]; an amount of an entry is a whole number of
   cents or NaN, so the arithmetic of the amounts is that of the integers. *)

\* round-half-up to whole cents of an amount given in thousandths
RoundedToCents(v) == 10 * ((v + 5) \div 10)

\* a == b of two numbers
JsEq(a, b) ==
    /\ ~IsNaN(a) /\ ~IsNaN(b)
    /\ \/ IsFinite(a) /\ IsFinite(b) /\ Key(a) = Key(b)
       \/ ~IsFinite(a) /\ a.k = b.k

IsZeroEntry(e) ==
    /\ JsEq(e.remainingDebt, Zero) /\ JsEq(e.interest, Zero)
    /\ JsEq(e.repayment, Zero) /\ JsEq(e.payment, Zero)

IsAmount(x) == x.k = "num"

BranchesTaken == {branches[j] : j \in 1..Len(branches)}

\* C1: in every schedule, at every entry i >= 1, the balance is not positive
\* and equals the previous balance plus the entry's repayment, rounded to
\* cents (the rounding of a sum that is no number being 0); this covers
\* regular entries, the final entry and zero entries.
C1_BalanceRecurrence ==
    \A j \in 2..Len(amortizationEntries) :
        LET prev == amortizationEntries[j - 1].remainingDebt
            e == amortizationEntries[j]
        IN  /\ IsAmount(e.remainingDebt) /\ IsAmount(e.repayment)
            /\ e.remainingDebt.v <= 0
            /\ e.remainingDebt.v = IF IsNaN(prev) THEN 0
                                   ELSE RoundedToCents(prev.v + e.repayment.v)

\* a returned schedule with regular entries, a final entry and zero entries
C1_Witness ==
    /\ Returned
    /\ {"regular", "final", "zero"} \subseteq BranchesTaken

\* C2 as stated: a returned schedule has exactly interestFixation * 12 + 1
\* entries.
C2_LengthIsProduct ==
    Returned => 100 * Len(amortizationEntries) = numberOfPayments.v + 100

\* C2 amended: a returned schedule has the disbursement entry followed by one
\* entry for each started month of the fixation period, ceil(interestFixation
\* * 12) + 1 entries, also when the loan is paid off early.
C2_LengthIsCeiling ==
    Returned =>
        /\ IsAmount(numberOfPayments)
        /\ Len(amortizationEntries) = 1 + (-((-numberOfPayments.v) \div 100))
        /\ Len(branches) = Len(amortizationEntries)
        /\ branches[1] = "disbursement"
        /\ \A j \in 2..Len(branches) : branches[j] # "disbursement"

\* a returned schedule of a fixation that is no whole number of months, paid
\* off before its end
C2_Witness ==
    /\ Returned
    /\ numberOfPayments.v % 100 # 0
    /\ "zero" \in BranchesTaken

\* C3 as stated: once a balance is zero every later entry is a zero entry,
\* so the balances are strictly negative values followed only by zeros.
C3_PaidOffIsAbsorbing ==
    \A j \in 1..Len(amortizationEntries) :
        LET debt == amortizationEntries[j].remainingDebt
        IN  /\ IsAmount(debt) /\ debt.v <= 0
            /\ debt.v = 0 =>
                   \A k \in (j + 1)..Len(amortizationEntries) :
                       IsZeroEntry(amortizationEntries[k])

\* the monthly payment and the first month's interest as the plan computes them
PlanMonthlyPayment ==
    calculateMonthlyPayment(loanData.loanAmount, loanData.interestRate,
                            loanData.initialRepayment)
PlanFirstMonthInterest ==
    roundToTwoDecimals(JsMulRate(loanData.loanAmount, loanData.interestRate))

\* C4 as stated: the call raises InsufficientRateError exactly when the input
\* is valid and monthlyPayment <= firstMonthInterest, and for every other
\* valid input it returns a schedule and raises nothing.
C4_InsufficientExactly ==
    PlanDone =>
        LET insufficient == /\ isValidLoanData(loanData)
                            /\ JsLe(PlanMonthlyPayment, PlanFirstMonthInterest)
        IN  /\ thrown = "InsufficientRateError" <=> insufficient
            /\ isValidLoanData(loanData) /\ ~insufficient => thrown = "none"

\* C5: an input that isValidLoanData rejects makes the call raise
\* InvalidLoanDataError before anything is computed: never
\* InsufficientRateError, never an empty or partial schedule.
C5_InvalidIsRejectedFirst ==
    ~isValidLoanData(loanData) =>
        /\ pc = "start" \/ PlanDone
        /\ PlanDone => thrown = "InvalidLoanDataError"
        /\ thrown \in {"none", "InvalidLoanDataError"}
        /\ amortizationEntries = <<>>
        /\ monthlyInterestRate = Undefined /\ numberOfPayments = Undefined
        /\ monthlyPayment = Undefined /\ firstMonthInterest = Undefined

\* the call has ended with InvalidLoanDataError for an object with a negative
\* interest rate
C5_Witness ==
    /\ PlanDone /\ thrown = "InvalidLoanDataError"
    /\ loanData.tag = "object"
    /\ IsAmount(loanData.interestRate) /\ loanData.interestRate.v < 0

AllFieldsFinite(ld) ==
    /\ IsFinite(ld.loanAmount) /\ IsFinite(ld.interestRate)
    /\ IsFinite(ld.initialRepayment) /\ IsFinite(ld.interestFixation)

\* x > 0 and x >= 0 of a finite number
IsPositive(x) == x.k \in {"tiny", "huge"} \/ (x.k = "num" /\ x.v > 0)
IsNotNegative(x) == x.k \in {"tiny", "huge"} \/ (x.k = "num" /\ x.v >= 0)

\* the validation of the call has accepted its input
Accepted == pc # "start" /\ thrown # "InvalidLoanDataError"

C7_NonFiniteIsRejected ==
    pc # "start" /\ loanData.tag = "object" /\ ~AllFieldsFinite(loanData) =>
        thrown = "InvalidLoanDataError"

\* C8 as stated: entry 0 is the disbursement: its balance, repayment and
\* payment are minus the loan amount rounded to cents, its interest is 0,
\* and no later entry has a negative payment.
C8_DisbursementEntry ==
    Len(amortizationEntries) >= 1 =>
        LET e == amortizationEntries[1]
            amount == loanData.loanAmount
        IN  /\ IsAmount(e.remainingDebt) /\ IsAmount(e.repayment) /\ IsAmount(e.payment)
            /\ IsAmount(amount) =>
                   /\ e.remainingDebt.v = -RoundedToCents(amount.v)
                   /\ e.repayment.v = -RoundedToCents(amount.v)
                   /\ e.payment.v = -RoundedToCents(amount.v)
            /\ e.interest = Zero
            /\ \A j \in 2..Len(amortizationEntries) :
                   ~JsLt(amortizationEntries[j].payment, Zero)

\* entry j neither pays the loan off nor is a zero entry
IsRegularEntry(j) ==
    LET prev == amortizationEntries[j - 1].remainingDebt
        e == amortizationEntries[j]
    IN  /\ ~IsZeroEntry(e)
        /\ ~(JsLt(prev, Zero) /\ JsEq(e.remainingDebt, Zero))

\* monthlyPayment = round2(loanAmount * (interestRate / 100 +
\* initialRepayment / 100) / 12) of an amount on the grid, in exact arithmetic
ExactMonthlyPayment ==
    RoundedToCents(MulDiv(loanData.loanAmount.v,
                          loanData.interestRate.v + loanData.initialRepayment.v,
                          RateDen))

\* C9 as stated: every entry i >= 1 that neither pays the loan off nor is a
\* zero entry has payment[i] == monthlyPayment.
C9_RegularPaymentIsConstant ==
    \A j \in 2..Len(amortizationEntries) :
        IsRegularEntry(j) =>
            /\ IsAmount(amortizationEntries[j].payment)
            /\ amortizationEntries[j].payment.v = ExactMonthlyPayment

\* the worked example of C10: 100000 at 5 % with 2 % repayment for one year
ExampleInput == Object(Fin(100000000), Fin(500), Fin(200), Fin(100))

\* C10 as stated: every regular entry has interest[i] == round2(-
\* remainingDebt[i-1] * rate / 100 / 12), repayment[i] == round2(
\* monthlyPayment - interest[i]) and remainingDebt[i] == remainingDebt[i-1]
\* + repayment[i]; the example has monthlyPayment 583.33, entry 1 = (416.67,
\* 166.66, -99833.34) and remainingDebt[12] == -97953.56.
C10_RegularEntryFormulas ==
    /\ \A j \in 2..Len(amortizationEntries) :
           LET prev == amortizationEntries[j - 1].remainingDebt
               e == amortizationEntries[j]
           IN  IsRegularEntry(j) =>
                   /\ IsAmount(e.interest) /\ IsAmount(e.repayment)
                   /\ IsAmount(e.remainingDebt)
                   /\ e.interest.v =
                          RoundedToCents(MulDiv(-prev.v, loanData.interestRate.v, RateDen))
                   /\ e.repayment.v = RoundedToCents(ExactMonthlyPayment - e.interest.v)
                   /\ e.remainingDebt.v = prev.v + e.repayment.v
    /\ Returned /\ loanData = ExampleInput =>
           /\ monthlyPayment = Fin(583330)
           /\ amortizationEntries[2].interest = Fin(416670)
           /\ amortizationEntries[2].repayment = Fin(166660)
           /\ amortizationEntries[2].remainingDebt = Fin(-99833340)
           /\ amortizationEntries[13].remainingDebt = Fin(-97953560)

\* |x| of an integer
Magnitude(x) == IF x < 0 THEN -x ELSE x

\* C11 as stated: in a payment month where round2(monthlyPayment - interest)
\* >= |remainingDebt[i-1]| - 0.005 the entry has repayment[i] ==
\* |remainingDebt[i-1]|, remainingDebt[i] == 0 and payment[i] ==
\* round2(interest[i] + repayment[i]) <= monthlyPayment; and no payment entry
\* has payment[i] > monthlyPayment.
C11_FinalInstallmentClamp ==
    \A j \in 2..Len(amortizationEntries) :
        LET prev == amortizationEntries[j - 1].remainingDebt
            e == amortizationEntries[j]
        IN  /\ IsAmount(e.payment) /\ IsAmount(e.interest) /\ IsAmount(e.repayment)
            /\ e.payment.v <= ExactMonthlyPayment
            /\ (/\ IsAmount(prev)
                /\ RoundedToCents(ExactMonthlyPayment - e.interest.v)
                       >= Magnitude(prev.v) - ZERO_THRESHOLD) =>
                   /\ e.repayment.v = Magnitude(prev.v)
                   /\ e.remainingDebt = Zero
                   /\ e.payment.v = RoundedToCents(e.interest.v + e.repayment.v)

\* C12 as stated: every entry of a schedule has payment[i] == interest[i] +
\* repayment[i] to the cent: the disbursement entry, regular installments,
\* the final installment and zero entries.
C12_PaymentSplitsExactly ==
    \A j \in 1..Len(amortizationEntries) :
        LET e == amortizationEntries[j]
        IN  /\ IsAmount(e.payment) /\ IsAmount(e.interest) /\ IsAmount(e.repayment)
            /\ e.payment.v = e.interest.v + e.repayment.v

\* the sum of a field over the entries from index from on, in whole numbers
RECURSIVE SumOfField(_, _, _)
SumOfField(entries, field, from) ==
    IF from > Len(entries) THEN 0
    ELSE SumOfField(SubSeq(entries, 1, Len(entries) - 1), field, from)
         + entries[Len(entries)][field].v

\* calculateSummaryData has been called with a non-empty array
SummarizedSchedule ==
    /\ pc = "summarized"
    /\ amortizationPlan.tag = "array"
    /\ Len(amortizationPlan.entries) > 0

\* C13 as stated: for a non-empty schedule the summary has the rounded sums
\* of interest and of repayment over the entries 1..last, and the last
\* entry's remainingDebt; a schedule that holds only the disbursement entry
\* yields totals 0 and remainingDebt == -loanAmount.
C13_SummaryAsStated ==
    SummarizedSchedule =>
        LET entries == amortizationPlan.entries
        IN  /\ summary.totalInterestPaid =
                   Fin(RoundedToCents(SumOfField(entries, "interest", 2)))
            /\ summary.totalRepaymentPaid =
                   Fin(RoundedToCents(SumOfField(entries, "repayment", 2)))
            /\ JsEq(summary.remainingDebt, entries[Len(entries)].remainingDebt)
            /\ Len(entries) = 1 =>
                   /\ summary.totalInterestPaid = Zero
                   /\ summary.totalRepaymentPaid = Zero
                   /\ IsAmount(loanData.loanAmount)
                   /\ summary.remainingDebt = Fin(-loanData.loanAmount.v)

\* C13 amended: the summary has the rounded sums of interest and of repayment
\* over the entries 1..last and the last entry's remainingDebt rounded to
\* cents (0 where that is no number); a schedule that holds only the
\* disbursement entry yields totals 0.
C13_SummaryOfSchedule ==
    SummarizedSchedule =>
        LET entries == amortizationPlan.entries
            last == entries[Len(entries)].remainingDebt
        IN  /\ summary.totalInterestPaid =
                   Fin(RoundedToCents(SumOfField(entries, "interest", 2)))
            /\ summary.totalRepaymentPaid =
                   Fin(RoundedToCents(SumOfField(entries, "repayment", 2)))
            /\ summary.remainingDebt =
                   IF IsAmount(last) THEN Fin(RoundedToCents(last.v)) ELSE Zero
            /\ Len(entries) = 1 =>
                   /\ summary.totalInterestPaid = Zero
                   /\ summary.totalRepaymentPaid = Zero

\* the summary of a returned schedule with interest and repayment paid
C13_Witness ==
    /\ SummarizedSchedule
    /\ Len(amortizationPlan.entries) > 2
    /\ summary.totalInterestPaid.v > 0
    /\ summary.totalRepaymentPaid.v > 0
    /\ summary.remainingDebt.v < 0

\* C14: calculateSummaryData never fails: for null, undefined and the empty
\* array it returns the summary of three zeros.
C14_SummaryOfNothing ==
    pc = "summarized" =>
        /\ IsAmount(summary.remainingDebt)
        /\ IsAmount(summary.totalInterestPaid)
        /\ IsAmount(summary.totalRepaymentPaid)
        /\ ~SummarizedSchedule =>
               /\ summary.remainingDebt = Zero
               /\ summary.totalInterestPaid = Zero
               /\ summary.totalRepaymentPaid = Zero

\* calculateSummaryData has been called with null
C14_Witness ==
    /\ pc = "summarized"
    /\ amortizationPlan.tag = "null"
    /\ summary.remainingDebt = Zero

\* calculateSummaryData has been called with the schedule that
\* calculateAmortizationPlan returned
SummarizedReturnedPlan ==
    /\ SummarizedSchedule
    /\ thrown = "none"
    /\ amortizationPlan.entries = amortizationEntries

\* the total differs from the loan amount by at most two cents; a loan of
\* 1e-9 is less than a thousandth away from 0, a loan of 1.2e26 is more than
\* two cents away from every amount of the schedule
WithinTwoCents(total, loanAmount) ==
    /\ IsAmount(total)
    /\ CASE loanAmount.k = "num" -> Magnitude(total.v - loanAmount.v) <= 20
          [] loanAmount.k = "tiny" -> Magnitude(total.v) <= 20
          [] OTHER -> FALSE

\* C15 as stated: for every valid, viable input whose schedule ends with
\* remainingDebt == 0, |totalRepaymentPaid - loanAmount| <= 0.02.
C15_RepaymentsSumToLoan ==
    (/\ SummarizedReturnedPlan
     /\ amortizationEntries[Len(amortizationEntries)].remainingDebt = Zero) =>
        WithinTwoCents(summary.totalRepaymentPaid, loanData.loanAmount)

\* the input of the worked example of C16: 10000 at 0 % with 10 % repayment
\* for one year
ZeroRateExample == ZeroRateLoan

\* installment j leaves a balance: it comes before the payoff
IsBeforePayoff(j) == ~JsEq(amortizationEntries[j].remainingDebt, Zero)

LastDayOf(year, month) ==
    IF month = 1
    THEN IF year % 400 = 0 \/ (year % 4 = 0 /\ year % 100 # 0) THEN 29 ELSE 28
    ELSE IF month \in {0, 2, 4, 6, 7, 9, 11} THEN 31 ELSE 30

\* the last day of the month k months after the month of the day start
MonthEndAfter(start, k) ==
    LET months == 12 * start.y + start.m + k
    IN  [y |-> months \div 12, m |-> months % 12,
         d |-> LastDayOf(months \div 12, months % 12)]

\* C17: entry k is dated on the last calendar day of the month k months
\* after the month in which the calculation runs; consecutive entries are
\* one month apart, January follows December in the next year, and February
\* ends on the 29th in leap years and on the 28th otherwise.
C17_EntryDates ==
    /\ \A j \in 1..Len(amortizationEntries) :
           amortizationEntries[j].date = MonthEndAfter(today, j - 1)
    /\ \A j \in 2..Len(amortizationEntries) :
           LET a == amortizationEntries[j - 1].date
               b == amortizationEntries[j].date
           IN  /\ 12 * b.y + b.m = 12 * a.y + a.m + 1
               /\ a.m = 11 => (b.m = 0 /\ b.y = a.y + 1)

\* a schedule that starts in December 2027 and runs over January 2028, the
\* leap February of 2028 and the February of 2029
C17_Witness ==
    /\ Returned
    /\ today.y = 2027 /\ today.m = 11
    /\ Len(amortizationEntries) >= 15
    /\ amortizationEntries[1].date = [y |-> 2027, m |-> 11, d |-> 31]
    /\ amortizationEntries[2].date = [y |-> 2028, m |-> 0, d |-> 31]
    /\ amortizationEntries[3].date = [y |-> 2028, m |-> 1, d |-> 29]
    /\ amortizationEntries[15].date = [y |-> 2029, m |-> 1, d |-> 28]

\* C18: roundToTwoDecimals rounds every non-negative amount given in
\* thousandths to the nearest cent, a half cent going up (1.005 -> 1.01,
\* 123.454 -> 123.45, 123.455 -> 123.46, 123.456 -> 123.46, 100 -> 100), and
\* rounding the result again does not change it.
C18_RoundsHalfUp ==
    /\ pc \in {"rounded", "roundedAgain"} =>
           /\ IsAmount(rounded)
           /\ rounded.v % 10 = 0
           /\ argument.v - 5 < rounded.v
           /\ rounded.v <= argument.v + 5
           /\ argument = Fin(1005) => rounded = Fin(1010)
           /\ argument = Fin(123454) => rounded = Fin(123450)
           /\ argument = Fin(123455) => rounded = Fin(123460)
           /\ argument = Fin(123456) => rounded = Fin(123460)
           /\ argument = Fin(100000) => rounded = Fin(100000)
    /\ pc = "roundedAgain" => roundedAgain = rounded

\* half a cent has been rounded up, and the result rounded again
C18_Witness ==
    /\ pc = "roundedAgain"
    /\ argument = Fin(1005)
    /\ rounded = Fin(1010)
    /\ roundedAgain = Fin(1010)

C20_DefensiveBranchUnreachable ==
    \A j \in 1..Len(branches) : branches[j] # "defensive"

\* C21 as stated: for every input accepted by isValidLoanData the call
\* terminates, raising an error or returning a schedule after at most
\* interestFixation * 12 iterations of the month loop; the loop never runs
\* without bound.
C21_LoopIsBounded ==
    (loanData.tag = "object" /\ isValidLoanData(loanData)) =>
        /\ thrown \in {"none", "InsufficientRateError"}
        /\ pc = "loop" =>
               /\ IsAmount(loanData.interestFixation)
               /\ 100 * i < loanData.interestFixation.v * MONTHS_IN_YEAR + 100

\* firstMonthInterest = round2(loanAmount * interestRate / 100 / 12) of an
\* amount on the grid, in exact arithmetic
ExactFirstMonthInterest ==
    RoundedToCents(MulDiv(loanData.loanAmount.v, loanData.interestRate.v, RateDen))

\* the input is valid, its loan amount and rates are on the grid, and the
\* monthly payment exceeds the first month's interest in exact arithmetic
IsViableExactly ==
    /\ loanData.tag = "object"
    /\ isValidLoanData(loanData)
    /\ IsAmount(loanData.loanAmount)
    /\ IsAmount(loanData.interestRate)
    /\ IsAmount(loanData.initialRepayment)
    /\ ExactMonthlyPayment > ExactFirstMonthInterest

\* C22 as stated: for every valid, viable input, every payment entry i >= 1
\* with remainingDebt[i-1] != 0 has repayment[i] > 0 and |remainingDebt[i]| <
\* |remainingDebt[i-1]|: the debt never stays the same and never grows.
C22_StrictProgress ==
    \A j \in 2..Len(amortizationEntries) :
        LET prev == amortizationEntries[j - 1].remainingDebt
            e == amortizationEntries[j]
        IN  (IsViableExactly /\ IsAmount(prev) /\ prev.v # 0) =>
                /\ IsAmount(e.repayment) /\ IsAmount(e.remainingDebt)
                /\ e.repayment.v > 0
                /\ Magnitude(e.remainingDebt.v) < Magnitude(prev.v)

\* C24 as stated: for every input accepted by isValidLoanData the
\* InsufficientRateError is only raised with monthlyPayment equal to
\* firstMonthInterest: its message is the 'exactly covers' one, and the
\* 'insufficient to cover' message is never produced.
C24_OnlyExactlyCovers ==
    (loanData.tag = "object" /\ isValidLoanData(loanData)) =>
        /\ errorMsg.variant # "insufficient"
        /\ thrown = "InsufficientRateError" => errorMsg.variant = "exactly covers"

\* total == round2(loanAmount) + remainingDebt; round2 of the loan of 1e-9
\* is 0 or no number, and round2 of the loan of 1.2e26 is 1.2e26 or no
\* number, which no two amounts of a schedule add up to
IsConserved(total, loanAmount, remainingDebt) ==
    /\ IsAmount(total) /\ IsAmount(remainingDebt)
    /\ CASE loanAmount.k = "num" ->
                total.v = RoundedToCents(loanAmount.v) + remainingDebt.v
          [] loanAmount.k = "tiny" -> total.v = remainingDebt.v
          [] OTHER -> FALSE

\* C23 as stated: for every schedule returned by calculateAmortizationPlan
\* the summary has totalRepaymentPaid == round2(loanAmount) + remainingDebt:
\* the repayments add up to the difference between the disbursed amount and
\* the outstanding debt.
C23_PrincipalIsConserved ==
    SummarizedReturnedPlan =>
        IsConserved(summary.totalRepaymentPaid, loanData.loanAmount,
                    summary.remainingDebt)

MonthsToPayOff ==
    LET perMonth == ExactMonthlyPayment - ExactFirstMonthInterest
    IN  (loanData.loanAmount.v + perMonth - 1) \div perMonth

\* the premise of C26: a valid, viable input with a loan amount in whole
\* cents and a period of at least MonthsToPayOff months; the plan's monthly
\* payment and first month's interest are the exact ones
IsLongEnough ==
    /\ IsViableExactly
    /\ loanData.loanAmount.v % 10 = 0
    /\ PlanMonthlyPayment = Fin(ExactMonthlyPayment)
    /\ PlanFirstMonthInterest = Fin(ExactFirstMonthInterest)
    /\ IsAmount(loanData.interestFixation)
    /\ loanData.interestFixation.v * MONTHS_IN_YEAR >= 100 * MonthsToPayOff

\* the entries that take a negative balance to 0
PayoffEntries ==
    {j \in 2..Len(amortizationEntries) :
        /\ JsLt(amortizationEntries[j - 1].remainingDebt, Zero)
        /\ amortizationEntries[j].remainingDebt = Zero}

\* C26 as stated: for every valid, viable input with a loan amount in whole
\* cents and interestFixation * 12 >= ceil(loanAmount / (monthlyPayment -
\* firstMonthInterest)), the last entry of the schedule has remainingDebt ==
\* 0 and exactly one entry is the payoff entry.
C26_EventualPayoff ==
    (Returned /\ IsLongEnough) =>
        /\ amortizationEntries[Len(amortizationEntries)].remainingDebt = Zero
        /\ Cardinality(PayoffEntries) = 1

\* C27 as stated: over the regular entries of a returned schedule, those
\* before the payoff, interest does not increase and repayment does not
\* decrease from one month to the next, and no interest is negative.
C27_InterestFallsRepaymentRises ==
    Returned =>
        /\ \A j \in 2..Len(amortizationEntries) :
               IsRegularEntry(j) =>
                   /\ IsAmount(amortizationEntries[j].interest)
                   /\ amortizationEntries[j].interest.v >= 0
        /\ \A j \in 2..(Len(amortizationEntries) - 1) :
               (IsRegularEntry(j) /\ IsRegularEntry(j + 1)) =>
                   /\ IsAmount(amortizationEntries[j].repayment)
                   /\ IsAmount(amortizationEntries[j + 1].repayment)
                   /\ amortizationEntries[j + 1].interest.v
                          <= amortizationEntries[j].interest.v
                   /\ amortizationEntries[j + 1].repayment.v
                          >= amortizationEntries[j].repayment.v

\* C28: after any sequence of submissions the component's amortizationPlan
\* and summaryData are both null or both set; when set they are the schedule
\* and the summary of the loan data submitted last; whenever calculationError
\* is set both are null, so no plan of an earlier submission stays after a
\* failed one, and a plan is only there with calculationError cleared.
C28_ResultStateConsistent ==
    /\ componentPlan = NullPlan <=> summaryData = NoSummary
    /\ calculationError # NoError =>
           componentPlan = NullPlan /\ summaryData = NoSummary
    /\ componentPlan # NullPlan =>
           /\ calculationError = NoError
           /\ Len(submitted) > 0
           /\ componentLoanData = submitted[Len(submitted)]
           /\ loanData = submitted[Len(submitted)]
           /\ pc = "idle" /\ thrown = "none"
           /\ componentPlan = ArrayOf(amortizationEntries)
           /\ summaryData = calculateSummaryData(componentPlan)
    /\ Len(submitted) > 0 => componentLoanData = submitted[Len(submitted)]

\* a submission that got a schedule has been followed by one that failed:
\* the error is shown and the earlier schedule is gone
C28_Witness ==
    /\ pc = "idle"
    /\ Len(submitted) = 2
    /\ isValidLoanData(submitted[1])
    /\ submitted[1].interestRate = Fin(500)
    /\ submitted[1].initialRepayment = Fin(200)
    /\ calculationError # NoError
    /\ componentPlan = NullPlan

\* the control holds something: neither null nor ''
IsFilled(control) == ~(control.t = "null" \/ (control.t = "string" /\ control.s = ""))

\* the conditions of C29: every control is filled, and the numbers that the
\* controls stand for are in their ranges
IsAsClaimed(form) ==
    LET ld == LoanDataOfForm(form)
    IN  /\ IsFilled(form.loanAmount) /\ IsFilled(form.interestRate)
        /\ IsFilled(form.initialRepayment) /\ IsFilled(form.interestFixation)
        /\ JsGe(ld.loanAmount, Fin(1000))
        /\ JsGe(ld.interestRate, Zero) /\ JsLe(ld.interestRate, Fin(10000))
        /\ JsGt(ld.initialRepayment, Zero)
        /\ JsLe(ld.initialRepayment, Fin(10000))
        /\ IsAmount(ld.interestFixation)
        /\ ld.interestFixation.v % 100 = 0
        /\ ld.interestFixation.v >= 100 /\ ld.interestFixation.v <= 10000

\* C29 as stated: onSubmit emits loanDataSubmitted exactly when loanAmount >=
\* 1, 0 <= interestRate <= 100, 0 < initialRepayment <= 100 and
\* interestFixation is an integer in 1..100; otherwise it emits nothing and
\* marks all fields touched; every LoanData it emits is accepted by
\* isValidLoanData.
C29_FormEmitsValidData ==
    pc = "submitted" =>
        /\ emitted # NotEmitted <=> IsAsClaimed(loanForm)
        /\ emitted = NotEmitted => touched
        /\ emitted # NotEmitted =>
               /\ emitted = LoanDataOfForm(loanForm)
               /\ isValidLoanData(emitted)

\* the numbers that are NaN
IsNotANumber(x) == x.k = "NaN"

\* C30 as stated: roundToTwoDecimals never returns NaN, also for the amounts
\* that are printed in exponent notation (below 1e-6, from 1e21 on): the
\* monthly payment, which _calculateMonthlyPayment returns straight from
\* roundToTwoDecimals, is never NaN, and no amount stored in a schedule entry
\* is NaN.
C30_RoundingNeverNaN ==
    /\ ~IsNotANumber(monthlyPayment)
    /\ \A j \in 1..Len(amortizationEntries) :
           LET e == amortizationEntries[j]
           IN  /\ ~IsNotANumber(e.remainingDebt)
               /\ ~IsNotANumber(e.interest)
               /\ ~IsNotANumber(e.repayment)
               /\ ~IsNotANumber(e.payment)
====
